---- MODULE Spec2Model ----
(***************************************************************************)
(* A model of prody/utilities/catchall.py: calcTree, clusterMatrix,        *)
(* reorderMatrix and findSubgroups.  Each function is a pure function of   *)
(* its arguments; a behaviour is one call: Init draws the arguments, the   *)
(* function's action runs the body and records how the call ended.         *)
(*                                                                         *)
(* Python lists are sequences; Python positions are 0-based, so the        *)
(* element at Python position k of a list s is s[k + 1].                   *)
(***************************************************************************)
EXTENDS Integers, Sequences, FiniteSets, TLC

VARIABLES
    op,     \* the function being called
    args,   \* its arguments
    pc,     \* "call" before the body has run, "done" after
    ret,    \* how the call ended: a returned value or a raised error
    queries, \* the tree.distance(a, b) queries the call made, in order
    lib     \* what the clustering and tree-building libraries were given
            \* and gave back during the call

vars == <<op, args, pc, ret, queries, lib>>

(***************************************************************************)
(* Bounds of the model.                                                    *)
(***************************************************************************)
\* largest number of terminals of a tree given to findSubgroups
MaxTerminals == 4

\* the labels findSubgroups' terminals carry (terminals may share a label)
Labels == {"A", "B"}

\* largest dimension of a matrix and largest length of a list of names
MaxN == 3

\* the strings names and terminal names are drawn from
StrNames == {"0", "1", "2"}

\* largest length of a method string drawn from MethodAlphabet
MaxMethodLen == 4

(***************************************************************************)
(* How a call ends.                                                        *)
(***************************************************************************)
NotYet == [kind |-> "none"]

Raise(e) == [kind |-> "raise", error |-> e]

Return(v) == [kind |-> "return", value |-> v]

NoLib == [called |-> "none"]

(***************************************************************************)
(* The tree object (Bio.Phylo.BaseTree.Tree), as far as this module uses   *)
(* it: the list of its terminals in traversal order and the distance       *)
(* between two of them.  A terminal is identified by its 0-based position  *)
(* in get_terminals(); terminals[k + 1] is its name, which is what str()   *)
(* of the terminal gives.  dist maps a pair <<a, b>>, a < b, to the        *)
(* distance of the two terminals; the distance is symmetric and 0 from a   *)
(* terminal to itself.                                                     *)
(***************************************************************************)
get_terminals(tree) == tree.terminals

str(tree, k) == get_terminals(tree)[k + 1]

distance(tree, a, b) ==
    IF a = b THEN 0
    ELSE IF a < b THEN tree.dist[<<a, b>>] ELSE tree.dist[<<b, a>>]

TerminalPairs(n) == {p \in (0..(n - 1)) \X (0..(n - 1)) : p[1] < p[2]}

(***************************************************************************)
(* findSubgroups(tree, cutoff=0.8).  Distances and cutoffs are counted in  *)
(* tenths, so the default cutoff 0.8 is 8.                                 *)
(***************************************************************************)
DefaultCutoff == 8

Distances == {DefaultCutoff, DefaultCutoff + 1}

Cutoffs == {DefaultCutoff - 1, DefaultCutoff}

\* subgroups[-1].append(x)
AppendToLast(subgroups, x) ==
    [subgroups EXCEPT ![Len(subgroups)] = Append(@, x)]

\* neighbour_distance >= cutoff: the comparison with its strictness lost
ExceedsCutoffOrEqual(neighbour_distance, cutoff) == neighbour_distance >= cutoff

\* neighbour_distance > cutoff
ExceedsCutoff(neighbour_distance, cutoff) == neighbour_distance > cutoff

\* str(target_i): the outer loop's terminal appended in place of the inner's
OuterLabel(tree, i, j) == str(tree, i)

\* the label appended for the pair (target_i, target_j): str(target_j)
NeighbourLabel(tree, i, j) == str(tree, j)

\* One pass of the inner loop's body with the loop variables at (i, j).
\* st holds the locals: subgroups, target_j (<<>> while unbound, <<j>> once
\* bound) and the tree.distance queries made so far.
InnerBody(tree, cutoff, i, j, st) ==
    LET bound == [st EXCEPT !.target_j = <<j>>]
    IN  IF i = j + 1
        THEN LET appended ==
                     [bound EXCEPT
                        !.subgroups = AppendToLast(@, NeighbourLabel(tree, i, j)),
                        !.queries = Append(@, <<i, j>>)]
                 neighbour_distance == distance(tree, i, j)
             IN  IF ExceedsCutoff(neighbour_distance, cutoff)
                 THEN [appended EXCEPT !.subgroups = Append(@, <<>>)]
                 ELSE appended
        ELSE bound

RECURSIVE InnerLoop(_, _, _, _, _)
\* for j, target_j in enumerate(tree.get_terminals()), from position j on
InnerLoop(tree, cutoff, i, j, st) ==
    IF j >= Len(get_terminals(tree)) THEN st
    ELSE InnerLoop(tree, cutoff, i, j + 1, InnerBody(tree, cutoff, i, j, st))

RECURSIVE OuterLoop(_, _, _, _)
\* for i, target_i in enumerate(tree.get_terminals()), from position i on
OuterLoop(tree, cutoff, i, st) ==
    IF i >= Len(get_terminals(tree)) THEN st
    ELSE OuterLoop(tree, cutoff, i + 1, InnerLoop(tree, cutoff, i, 0, st))

\* the function with the append after the loops left out
TrailingAppendOmitted(tree, st) ==
    [st EXCEPT !.result = Return(st.subgroups)]

\* the function with target_j pre-set to an empty label before the loops
TrailingAppendPreset(tree, st) ==
    LET label == IF st.target_j = <<>> THEN "" ELSE str(tree, st.target_j[1])
        subgroups == AppendToLast(st.subgroups, label)
    IN  [st EXCEPT !.subgroups = subgroups, !.result = Return(subgroups)]

\* subgroups[-1].append(str(target_j)) after the loops, and the return.
\* Reading target_j while no iteration has bound it is Python's
\* UnboundLocalError.
TrailingAppend(tree, st) ==
    IF st.target_j = <<>>
    THEN [st EXCEPT !.result = Raise("UnboundLocalError")]
    ELSE LET subgroups == AppendToLast(st.subgroups, str(tree, st.target_j[1]))
         IN  [st EXCEPT !.subgroups = subgroups, !.result = Return(subgroups)]

findSubgroups(tree, cutoff) ==
    LET st0 == [subgroups |-> <<<<>>>>, target_j |-> <<>>, queries |-> <<>>,
                result |-> NotYet]
    IN  TrailingAppend(tree, OuterLoop(tree, cutoff, 0, st0))

(***************************************************************************)
(* reorderMatrix(matrix, tree, names=None).                                *)
(*                                                                         *)
(* matrix is [kind, shape, data]: "array" for a numpy array and "other"    *)
(* for any other type, its shape, and for a 2-D array its entries,         *)
(* data[<<i, j>>] for 0-based i and j.  The function only moves entries,   *)
(* so an entry is the tag <<i, j>> of the place it comes from.             *)
(* names is [kind, items]: None, a list, or another type (a tuple).  An    *)
(* item is [isStr, text]: whether it is a string, and the string numpy     *)
(* makes of it when the list becomes an array of strings (the text of a    *)
(* string is itself, the text of the integer 1 is "1").                    *)
(* tree is [isTree, terminals, dist] as above.                             *)
(***************************************************************************)
Digits == <<"0", "1", "2", "3", "4", "5", "6", "7", "8", "9">>

\* str(i) of a small integer i
pystr(i) == Digits[i + 1]

ndim(matrix) == Len(matrix.shape)

\* len(matrix): the length of the first axis
len(matrix) == matrix.shape[1]

\* the 0-based places <<i, j>> of an array of the given shape
Places(rows, cols) == (0..(rows - 1)) \X (0..(cols - 1))

\* a 2-D numpy array
Array2D(rows, cols, data) ==
    [kind |-> "array", shape |-> <<rows, cols>>, data |-> data]

\* matrix[:, indices]
TakeColumns(matrix, indices) ==
    Array2D(matrix.shape[1], Len(indices),
            [p \in Places(matrix.shape[1], Len(indices)) |->
                matrix.data[<<p[1], indices[p[2] + 1]>>]])

\* matrix[indices, :]
TakeRows(matrix, indices) ==
    Array2D(Len(indices), matrix.shape[2],
            [p \in Places(Len(indices), matrix.shape[2]) |->
                matrix.data[<<indices[p[1] + 1], p[2]>>]])

\* names = [str(i) for i in range(len(matrix))]
DefaultNames(matrix) ==
    [kind |-> "list",
     items |-> [k \in 1..len(matrix) |-> [isStr |-> TRUE, text |-> pystr(k - 1)]]]

\* np.where(np.array(names) == name)[0]: the 0-based positions of the items
\* equal to name, in increasing order (given as their set)
where(items, name) == {k \in 0..(Len(items) - 1) : items[k + 1].text = name}

\* the last element of a non-empty array of positions
LastOf(positions) == CHOOSE k \in positions : \A m \in positions : m <= k

\* [0] of a non-empty array of positions: its first element
FirstOf(positions) == CHOOSE k \in positions : \A m \in positions : k <= m

\* the columns taken and the rows left as they were
ReorderColumnsOnly(matrix, indices) == TakeColumns(matrix, indices)

\* reordered_matrix = matrix[:, indices]; reordered_matrix[indices, :]
Reorder(matrix, indices) == TakeRows(TakeColumns(matrix, indices), indices)

RECURSIVE LookupLoop(_, _, _, _)
\* for terminal in tree.get_terminals(): indices.append(...), from the
\* terminal at position k on; an empty np.where(...)[0] has no element [0]
LookupLoop(tree, items, k, indices) ==
    IF k >= Len(get_terminals(tree)) THEN Return(indices)
    ELSE LET found == where(items, str(tree, k))
         IN  IF found = {} THEN Raise("IndexError")
             ELSE LookupLoop(tree, items, k + 1, Append(indices, FirstOf(found)))

\* the body from the names check on, names being the given or the default list
ReorderChecked(matrix, tree, names) ==
    IF names.kind # "list" THEN Raise("TypeError")
    ELSE IF names.items = <<>> THEN Raise("IndexError")
    ELSE IF ~names.items[1].isStr THEN Raise("TypeError")
    ELSE IF ~tree.isTree THEN Raise("TypeError")
    ELSE IF Len(names.items) # len(matrix) THEN Raise("ValueError")
    ELSE IF Len(names.items) # Len(get_terminals(tree)) THEN Raise("ValueError")
    ELSE IF Len(get_terminals(tree)) # len(matrix) THEN Raise("ValueError")
    ELSE LET looked == LookupLoop(tree, names.items, 0, <<>>)
         IN  IF looked.kind = "raise" THEN looked
             ELSE Return(<<Reorder(matrix, looked.value), looked.value>>)

reorderMatrix(matrix, tree, names) ==
    IF matrix.kind # "array" THEN Raise("TypeError")
    ELSE IF ndim(matrix) # 2 THEN Raise("ValueError")
    ELSE IF matrix.shape[1] # matrix.shape[2] THEN Raise("ValueError")
    ELSE ReorderChecked(matrix, tree,
                        IF names.kind = "None" THEN DefaultNames(matrix) ELSE names)

(***************************************************************************)
(* calcTree(names, distance_matrix, method='nj').  A string is the         *)
(* sequence of its characters, so that strip() and lower() act on it.      *)
(***************************************************************************)
UpperCase == <<"A", "B", "C", "D", "E", "F", "G", "H", "I", "J", "K", "L", "M",
               "N", "O", "P", "Q", "R", "S", "T", "U", "V", "W", "X", "Y", "Z">>

LowerCase == <<"a", "b", "c", "d", "e", "f", "g", "h", "i", "j", "k", "l", "m",
               "n", "o", "p", "q", "r", "s", "t", "u", "v", "w", "x", "y", "z">>

Whitespace == {" ", "\t", "\n", "\r"}

lowerChar(c) ==
    IF \E k \in 1..Len(UpperCase) : UpperCase[k] = c
    THEN LowerCase[CHOOSE k \in 1..Len(UpperCase) : UpperCase[k] = c]
    ELSE c

\* str.lower()
lower(s) == [k \in 1..Len(s) |-> lowerChar(s[k])]

RECURSIVE lstrip(_)
lstrip(s) ==
    IF s # <<>> /\ Head(s) \in Whitespace THEN lstrip(Tail(s)) ELSE s

RECURSIVE rstrip(_)
rstrip(s) ==
    IF s # <<>> /\ s[Len(s)] \in Whitespace
    THEN rstrip(SubSeq(s, 1, Len(s) - 1))
    ELSE s

\* str.strip()
strip(s) == rstrip(lstrip(s))

\* method.strip() alone: the lower-casing forgotten
StripOnly(method) == strip(method)

\* method = method.strip().lower()
NormalizeMethod(method) == lower(strip(method))

Min(a, b) == IF a < b THEN a ELSE b

\* matrix = []; k = 1; for row in distance_matrix: matrix.append(list(row[:k]))
LowerTriangle(distance_matrix) ==
    [k \in 1..distance_matrix.shape[1] |->
        [j \in 1..Min(k, distance_matrix.shape[2]) |->
            distance_matrix.data[<<k - 1, j - 1>>]]]

\* len(names) != distance_matrix.shape[0] or len(names) != distance_matrix.shape[1]
SizeMismatch(names, distance_matrix) ==
    \/ Len(names) # distance_matrix.shape[1]
    \/ Len(names) # distance_matrix.shape[2]

\* The call's outcome and the tree builder it invoked, if any.  The tree is
\* the builder's: its terminals carry the names, and the loop over
\* get_nonterminals() has set the name of every other node to None.
calcTree(names, distance_matrix, method) ==
    IF SizeMismatch(names, distance_matrix)
    THEN [result |-> Raise("ValueError"), lib |-> NoLib]
    ELSE LET dm == [names |-> names, matrix |-> LowerTriangle(distance_matrix)]
             normalized == NormalizeMethod(method)
             Built(builder) ==
                 [result |-> Return([builder |-> builder, dm |-> dm,
                                     nonterminal_name |-> "None"]),
                  lib |-> [called |-> builder, dm |-> dm]]
         IN  IF normalized = <<"n", "j">> THEN Built("nj")
             ELSE IF normalized = <<"u", "p", "g", "m", "a">> THEN Built("upgma")
             ELSE [result |-> Raise("ValueError"),
                   lib |-> [called |-> "_DistanceMatrix", dm |-> dm]]

(***************************************************************************)
(* clusterMatrix(distance_matrix=None, similarity_matrix=None,             *)
(* labels=None, return_linkage=None, reversed=False).  A matrix argument   *)
(* is [kind, shape, data], of kind "None" or "array"; labels is            *)
(* [isNone, items].  The leaf order is scipy's: leaves is the order        *)
(* sch.dendrogram gives for the linkage of the distances, some permutation *)
(* of the row numbers.                                                     *)
(***************************************************************************)
NoneMatrix == [kind |-> "None", shape |-> <<>>, data |-> <<>>]

\* 1. - similarity_matrix
Complement(similarity_matrix) ==
    [similarity_matrix EXCEPT
        !.data = [p \in DOMAIN similarity_matrix.data |->
                     1 - similarity_matrix.data[p]]]

\* spatial.distance.squareform: the entries above the diagonal
squareform(distance_matrix) ==
    [p \in TerminalPairs(distance_matrix.shape[1]) |-> distance_matrix.data[p]]

\* sch.linkage: the linkage of a condensed distance matrix
linkage(condensed) == [linkage_of |-> condensed]

\* sch.dendrogram's 'ivl' for the leaf order: the labels of the leaves, or
\* their numbers as strings when there are no labels
ivl(leaves, labels) ==
    [k \in 1..Len(leaves) |->
        IF labels.isNone THEN pystr(leaves[k]) ELSE labels.items[leaves[k] + 1]]

\* s[::-1]
Reversed(s) == [k \in 1..Len(s) |-> s[Len(s) + 1 - k]]

\* the derived distances taken in place of the matrix the caller gave
MatrixToSortDerived(distance_matrix, similarity_matrix) ==
    IF distance_matrix.kind = "None" THEN Complement(similarity_matrix)
    ELSE distance_matrix

\* matrix: the similarity matrix when no distance matrix is given, else the
\* distance matrix
MatrixToSort(distance_matrix, similarity_matrix) ==
    IF distance_matrix.kind = "None" THEN similarity_matrix ELSE distance_matrix

\* the distances clustered
DistancesToCluster(distance_matrix, similarity_matrix) ==
    IF distance_matrix.kind = "None" THEN Complement(similarity_matrix)
    ELSE distance_matrix

\* matrix[indices, :]; sorted_matrix[:, indices]
SortMatrix(matrix, indices) == TakeColumns(TakeRows(matrix, indices), indices)

\* the sorted labels appended whether or not labels was given
ReturnValsAlwaysLabels(sorted_matrix, indices, sorted_labels, linkage_matrix, labels, return_linkage) ==
    <<sorted_matrix, indices, sorted_labels>>
    \o (IF return_linkage = "True" THEN <<linkage_matrix>> ELSE <<>>)

\* return_vals = [sorted_matrix, indices], the labels appended if labels is
\* not None, the linkage appended if return_linkage is truthy
ReturnVals(sorted_matrix, indices, sorted_labels, linkage_matrix, labels, return_linkage) ==
    <<sorted_matrix, indices>>
    \o (IF ~labels.isNone THEN <<sorted_labels>> ELSE <<>>)
    \o (IF return_linkage = "True" THEN <<linkage_matrix>> ELSE <<>>)

\* the body after the check that a matrix was given, for the leaf order
\* leaves of the dendrogram
clusterMatrix(distance_matrix, similarity_matrix, labels, return_linkage, reversed, leaves) ==
    LET matrix == MatrixToSort(distance_matrix, similarity_matrix)
        distances == DistancesToCluster(distance_matrix, similarity_matrix)
        linkage_matrix == linkage(squareform(distances))
        sorting_dendrogram == [leaves |-> leaves, ivl |-> ivl(leaves, labels)]
        indices == IF reversed THEN Reversed(sorting_dendrogram.leaves)
                   ELSE sorting_dendrogram.leaves
        sorted_labels == IF reversed THEN Reversed(sorting_dendrogram.ivl)
                         ELSE sorting_dendrogram.ivl
        sorted_matrix == SortMatrix(matrix, indices)
    IN  [result |-> Return(ReturnVals(sorted_matrix, indices, sorted_labels,
                                      linkage_matrix, labels, return_linkage)),
         lib |-> [called |-> "dendrogram", distances |-> distances,
                  linkage_matrix |-> linkage_matrix,
                  leaves |-> sorting_dendrogram.leaves,
                  ivl |-> sorting_dendrogram.ivl]]

(***************************************************************************)
(* The calls.                                                              *)
(***************************************************************************)
\* the trees findSubgroups is called with: findSubgroups does not check the
\* type of its argument, so the terminal list may be empty
SubgroupTrees ==
    UNION {[terminals : [1..n -> Labels], dist : [TerminalPairs(n) -> Distances]]
           : n \in 0..MaxTerminals}

InitSubgroups ==
    /\ op = "findSubgroups"
    /\ args \in [tree : SubgroupTrees, cutoff : Cutoffs]
    /\ pc = "call"
    /\ ret = NotYet
    /\ queries = <<>>
    /\ lib = NoLib

CallFindSubgroups ==
    /\ pc = "call"
    /\ op = "findSubgroups"
    /\ LET st == findSubgroups(args.tree, args.cutoff)
       IN  /\ ret' = st.result
           /\ queries' = st.queries
    /\ pc' = "done"
    /\ UNCHANGED <<op, args, lib>>

NextSubgroups == CallFindSubgroups

SpecSubgroups == InitSubgroups /\ [][NextSubgroups]_vars

\* the r-by-c array whose entry at <<i, j>> is the tag <<i, j>>
TaggedArray(r, c) == Array2D(r, c, [p \in Places(r, c) |-> p])

\* the matrix arguments: something that is no array, and arrays of one, two
\* and three dimensions
Matrices ==
    {[kind |-> "other", shape |-> <<>>, data |-> <<>>]}
    \cup {[kind |-> "array", shape |-> <<n>>, data |-> <<>>] : n \in 0..MaxN}
    \cup {[kind |-> "array", shape |-> <<n, n, n>>, data |-> <<>>] : n \in 1..MaxN}
    \cup {TaggedArray(r, c) : r \in 0..MaxN, c \in 0..MaxN}

\* the tree arguments: something that is no tree, and trees, which have one
\* terminal or more
ReorderTrees ==
    {[isTree |-> FALSE, terminals |-> <<>>, dist |-> <<>>]}
    \cup UNION {[isTree : {TRUE}, terminals : [1..n -> StrNames], dist : {<<>>}]
                : n \in 1..MaxN}

NameItems ==
    {[isStr |-> TRUE, text |-> s] : s \in StrNames}
    \cup {[isStr |-> FALSE, text |-> pystr(1)]}

\* the names arguments: None, a tuple, and lists of strings and integers
NamesArgs ==
    {[kind |-> "None", items |-> <<>>], [kind |-> "tuple", items |-> <<>>]}
    \cup UNION {[kind : {"list"}, items : [1..n -> NameItems]] : n \in 0..MaxN}

InitReorder ==
    /\ op = "reorderMatrix"
    /\ args \in [matrix : Matrices, tree : ReorderTrees, names : NamesArgs]
    /\ pc = "call"
    /\ ret = NotYet
    /\ queries = <<>>
    /\ lib = NoLib

CallReorderMatrix ==
    /\ pc = "call"
    /\ op = "reorderMatrix"
    /\ ret' = reorderMatrix(args.matrix, args.tree, args.names)
    /\ pc' = "done"
    /\ UNCHANGED <<op, args, queries, lib>>

NextReorder == CallReorderMatrix

SpecReorder == InitReorder /\ [][NextReorder]_vars

\* the characters method strings are made of, next to the two method names
MethodAlphabet == {"n", "J", " ", "x"}

NamedMethods ==
    {<<"u", "p", "g", "m", "a">>, <<"U", "P", "G", "M", "A">>,
     <<" ", "U", "p", "g", "m", "a", "\n">>, <<"\t", "N", "J", " ", " ">>,
     <<"u", "p", "g", "m", "a", "x">>, <<"s", "i", "n", "g", "l", "e">>}

Methods ==
    NamedMethods
    \cup UNION {[1..n -> MethodAlphabet] : n \in 0..MaxMethodLen}

\* lists of distinct strings
DistinctNames ==
    {names \in UNION {[1..n -> StrNames] : n \in 0..MaxN} :
        \A a, b \in 1..Len(names) : names[a] = names[b] => a = b}

InitTree ==
    /\ op = "calcTree"
    /\ args \in [names : DistinctNames,
                 distance_matrix : {TaggedArray(r, c) : r \in 0..MaxN, c \in 0..MaxN},
                 method : Methods]
    /\ pc = "call"
    /\ ret = NotYet
    /\ queries = <<>>
    /\ lib = NoLib

CallCalcTree ==
    /\ pc = "call"
    /\ op = "calcTree"
    /\ LET out == calcTree(args.names, args.distance_matrix, args.method)
       IN  /\ ret' = out.result
           /\ lib' = out.lib
    /\ pc' = "done"
    /\ UNCHANGED <<op, args, queries>>

NextTree == CallCalcTree

SpecTree == InitTree /\ [][NextTree]_vars

\* the values of a matrix entry off the diagonal
EntryValues == {0, 1}

\* the symmetric n-by-n matrices with diag on the diagonal
SymmetricMatrices(n, diag) ==
    {Array2D(n, n, [p \in Places(n, n) |->
                      IF p[1] = p[2] THEN diag
                      ELSE IF p[1] < p[2] THEN upper[p] ELSE upper[<<p[2], p[1]>>]])
     : upper \in [TerminalPairs(n) -> EntryValues]}

LabelPool == <<"a", "b", "c", "d", "e", "f">>

\* the arguments of a call for matrices of n rows: a distance matrix (zero
\* on the diagonal), a similarity matrix (one on the diagonal), or both
ClusterArgs(n) ==
    [distance_matrix : {NoneMatrix} \cup SymmetricMatrices(n, 0),
     similarity_matrix : {NoneMatrix} \cup SymmetricMatrices(n, 1),
     labels : {[isNone |-> TRUE, items |-> <<>>],
               [isNone |-> FALSE, items |-> SubSeq(LabelPool, 1, n)]},
     return_linkage : {"None", "False", "True"},
     reversed : BOOLEAN]

\* the row count of the matrix clustered
ClusterSize ==
    IF args.distance_matrix.kind = "None" THEN args.similarity_matrix.shape[1]
    ELSE args.distance_matrix.shape[1]

LeafOrders(n) ==
    {leaves \in [1..n -> 0..(n - 1)] :
        \A a, b \in 1..n : leaves[a] = leaves[b] => a = b}

InitCluster ==
    /\ op = "clusterMatrix"
    /\ args \in UNION {ClusterArgs(n) : n \in 2..MaxN}
    /\ pc = "call"
    /\ ret = NotYet
    /\ queries = <<>>
    /\ lib = NoLib

\* if similarity_matrix is None and distance_matrix is None: raise ValueError
CallClusterMatrixNoMatrix ==
    /\ pc = "call"
    /\ op = "clusterMatrix"
    /\ args.similarity_matrix.kind = "None" /\ args.distance_matrix.kind = "None"
    /\ ret' = Raise("ValueError")
    /\ pc' = "done"
    /\ UNCHANGED <<op, args, queries, lib>>

CallClusterMatrix ==
    /\ pc = "call"
    /\ op = "clusterMatrix"
    /\ ~(args.similarity_matrix.kind = "None" /\ args.distance_matrix.kind = "None")
    /\ \E leaves \in LeafOrders(ClusterSize) :
         LET out == clusterMatrix(args.distance_matrix, args.similarity_matrix,
                                  args.labels, args.return_linkage,
                                  args.reversed, leaves)
         IN  /\ ret' = out.result
             /\ lib' = out.lib
    /\ pc' = "done"
    /\ UNCHANGED <<op, args, queries>>

NextCluster == CallClusterMatrixNoMatrix \/ CallClusterMatrix

SpecCluster == InitCluster /\ [][NextCluster]_vars

(***************************************************************************)
(* Properties of findSubgroups.                                            *)
(***************************************************************************)
SubgroupsDone == op = "findSubgroups" /\ pc = "done"

NumTerminals == Len(args.tree.terminals)

RECURSIVE Flatten(_)
\* the subgroups concatenated in order
Flatten(groups) ==
    IF groups = <<>> THEN <<>> ELSE Head(groups) \o Flatten(Tail(groups))

RECURSIVE LenUpTo(_, _)
\* the number of labels in the first g subgroups
LenUpTo(groups, g) ==
    IF g = 0 THEN 0 ELSE LenUpTo(groups, g - 1) + Len(groups[g])

\* the 0-based positions k with a cut between terminal k and terminal k + 1
CutsAfter ==
    {k \in 0..(NumTerminals - 2) :
        distance(args.tree, k + 1, k) > args.cutoff}

\* the positions after which one subgroup of the result ends and the next starts
RunEnds(groups) == {LenUpTo(groups, g) - 1 : g \in 1..(Len(groups) - 1)}

\* C3: for a tree of two or more terminals findSubgroups returns the terminal
\* labels, in traversal order, cut into contiguous runs, with a cut between
\* terminal k and terminal k + 1 exactly when their distance is strictly
\* greater than the cutoff; the distances it asks for are those of terminal
\* k + 1 to terminal k, for each k in turn.
C3_RunsCutWhereDistanceExceeds ==
    (SubgroupsDone /\ NumTerminals >= 2) =>
        /\ ret.kind = "return"
        /\ Flatten(ret.value) = args.tree.terminals
        /\ Len(ret.value) = Cardinality(CutsAfter) + 1
        /\ RunEnds(ret.value) = CutsAfter
        /\ queries = [k \in 1..(NumTerminals - 1) |-> <<k, k - 1>>]

\* four terminals, only the pair at positions 1 and 2 farther apart than the
\* cutoff, and a pair at exactly the cutoff: the result is two runs of two
C3_Witness ==
    /\ SubgroupsDone
    /\ NumTerminals = 4
    /\ CutsAfter = {1}
    /\ distance(args.tree, 1, 0) = args.cutoff
    /\ ret.kind = "return"
    /\ Len(ret.value) = 2
    /\ Len(ret.value[1]) = 2
    /\ Len(ret.value[2]) = 2

\* C7 as stated: on a tree with no terminal findSubgroups fails with an
\* index error.
C7_ZeroTerminalsIndexError ==
    (SubgroupsDone /\ NumTerminals = 0) => ret = Raise("IndexError")

\* C7 as amended: on a tree with no terminal findSubgroups returns no list;
\* it fails with the unbound-local error of reading target_j, which no
\* iteration has bound.
C7_ZeroTerminalsUnboundLocal ==
    (SubgroupsDone /\ NumTerminals = 0) =>
        /\ ret = Raise("UnboundLocalError")
        /\ queries = <<>>

C7_Witness ==
    /\ SubgroupsDone
    /\ NumTerminals = 0
    /\ ret.kind = "raise"

\* C8: on a tree with exactly one terminal findSubgroups returns, for every
\* cutoff, a list of one subgroup holding that terminal's label, raises
\* nothing and never queries tree.distance.
C8_SingleTerminal ==
    (SubgroupsDone /\ NumTerminals = 1) =>
        /\ ret = Return(<< <<args.tree.terminals[1]>> >>)
        /\ queries = <<>>

C8_Witness ==
    /\ SubgroupsDone
    /\ NumTerminals = 1
    /\ args.cutoff = DefaultCutoff
    /\ ret.kind = "return"

\* C10: for a tree of one or more terminals the subgroups concatenated give
\* every terminal label once, in traversal order; no subgroup is empty; and
\* there is one subgroup more than there are adjacent pairs farther apart
\* than the cutoff.
C10_Partition ==
    (SubgroupsDone /\ NumTerminals >= 1) =>
        /\ ret.kind = "return"
        /\ Flatten(ret.value) = args.tree.terminals
        /\ \A g \in 1..Len(ret.value) : ret.value[g] # <<>>
        /\ Len(ret.value) =
               1 + Cardinality({k \in 1..(NumTerminals - 1) :
                                  distance(args.tree, k - 1, k) > args.cutoff})

\* a cut right before the last terminal: the trailing append fills the last
\* subgroup with the one label still missing
C10_Witness ==
    /\ SubgroupsDone
    /\ NumTerminals = 3
    /\ CutsAfter = {0, 1}
    /\ ret.kind = "return"
    /\ Len(ret.value) = 3
    /\ ret.value[3] = <<args.tree.terminals[3]>>
    /\ args.tree.terminals[2] # args.tree.terminals[3]

(***************************************************************************)
(* Properties of reorderMatrix.                                            *)
(***************************************************************************)
ReorderDone == op = "reorderMatrix" /\ pc = "done"

IsSquareArray(matrix) ==
    /\ matrix.kind = "array"
    /\ Len(matrix.shape) = 2
    /\ matrix.shape[1] = matrix.shape[2]

AllStrings(names) ==
    /\ names.kind = "list"
    /\ \A k \in 1..Len(names.items) : names.items[k].isStr

\* the type and count preconditions: an n-by-n array, a list of n strings
\* and a tree of n terminals
ReorderPreconditions ==
    /\ IsSquareArray(args.matrix)
    /\ AllStrings(args.names)
    /\ args.tree.isTree
    /\ Len(args.names.items) = args.matrix.shape[1]
    /\ Len(args.tree.terminals) = args.matrix.shape[1]

\* the 0-based positions of a name in the list of names
PositionsOf(name) ==
    {k \in 0..(Len(args.names.items) - 1) : args.names.items[k + 1].text = name}

DistinctNameItems ==
    \A a, b \in 1..Len(args.names.items) :
        args.names.items[a].text = args.names.items[b].text => a = b

\* the terminal names are the names in some order
TerminalsPermuteNames ==
    /\ \A k \in 1..Len(args.tree.terminals) : PositionsOf(args.tree.terminals[k]) # {}
    /\ \A k \in 1..Len(args.names.items) :
           \E t \in 1..Len(args.tree.terminals) :
               args.tree.terminals[t] = args.names.items[k].text

\* C1: for an n-by-n matrix M, a list of n distinct strings and a tree whose
\* terminals are those names in some order, reorderMatrix returns (R, idx)
\* with idx[k] the position in names of the k-th terminal's name and
\* R[a][b] = M[idx[a]][idx[b]] for all a and b.
C1_ReorderPermutesBothAxes ==
    (ReorderDone /\ ReorderPreconditions /\ DistinctNameItems
        /\ TerminalsPermuteNames) =>
        /\ ret.kind = "return"
        /\ LET R == ret.value[1]
               idx == ret.value[2]
               n == args.matrix.shape[1]
           IN  /\ Len(idx) = n
               /\ \A k \in 1..n :
                      /\ idx[k] \in 0..(n - 1)
                      /\ args.names.items[idx[k] + 1].text = args.tree.terminals[k]
               /\ R.shape = <<n, n>>
               /\ \A a, b \in 0..(n - 1) :
                      R.data[<<a, b>>] = args.matrix.data[<<idx[a + 1], idx[b + 1]>>]

\* three names and the terminals in a rotated order
C1_Witness ==
    /\ ReorderDone /\ ReorderPreconditions /\ DistinctNameItems
    /\ TerminalsPermuteNames
    /\ args.matrix.shape[1] = 3
    /\ ret.kind = "return"
    /\ ret.value[2] = <<2, 0, 1>>
    /\ ret.value[1].data[<<0, 1>>] = <<2, 0>>

HasNonString ==
    /\ args.names.kind = "list"
    /\ \E k \in 1..Len(args.names.items) : ~args.names.items[k].isStr

\* a matrix that is no array, a tree that is no tree, or names that is no
\* list or has a non-string in it
TypeViolation ==
    \/ args.matrix.kind # "array"
    \/ ~args.tree.isTree
    \/ args.names.kind = "tuple"
    \/ HasNonString

\* the label count, with None standing for one label per matrix row
LabelCountDiffers(count) ==
    /\ args.names.kind = "list"
    /\ Len(args.names.items) # count

\* an array that is not 2-D or not square, or counts that disagree
DimensionViolation ==
    /\ args.matrix.kind = "array"
    /\ \/ Len(args.matrix.shape) # 2
       \/ args.matrix.shape[1] # args.matrix.shape[2]
       \/ LabelCountDiffers(args.matrix.shape[1])
       \/ args.tree.isTree /\ LabelCountDiffers(Len(args.tree.terminals))
       \/ args.tree.isTree /\ Len(args.tree.terminals) # args.matrix.shape[1]

\* the list of names the checks see, given or defaulted, has no element
NoNames ==
    \/ args.names.kind = "list" /\ args.names.items = <<>>
    \/ args.names.kind = "None" /\ IsSquareArray(args.matrix)
                                /\ args.matrix.shape[1] = 0

\* C2 as stated, for the calls with at least one name: reorderMatrix fails
\* with a type error when matrix is no array, tree is no tree or names has a
\* non-string at any position, and with a value error when the matrix is not
\* 2-D, not square or the counts disagree; in none of these cases does it
\* return a result.
C2_TypeAndValueErrors ==
    (ReorderDone /\ ~NoNames) =>
        /\ (TypeViolation \/ DimensionViolation) =>
               /\ ret.kind = "raise"
               /\ ret.error \in {"TypeError", "ValueError"}
        /\ (TypeViolation /\ ~DimensionViolation) => ret = Raise("TypeError")
        /\ (DimensionViolation /\ ~TypeViolation) => ret = Raise("ValueError")

\* C9: when the type and count preconditions pass, reorderMatrix fails with an
\* index error and returns nothing if some terminal's name is not in names;
\* otherwise the position it uses for a terminal is that of the first
\* occurrence of the terminal's name in names.
C9_LookupFirstMatchOrIndexError ==
    (ReorderDone /\ ReorderPreconditions) =>
        IF \E k \in 1..Len(args.tree.terminals) :
               PositionsOf(args.tree.terminals[k]) = {}
        THEN ret = Raise("IndexError")
        ELSE /\ ret.kind = "return"
             /\ Len(ret.value[2]) = Len(args.tree.terminals)
             /\ \A k \in 1..Len(args.tree.terminals) :
                    /\ ret.value[2][k] \in PositionsOf(args.tree.terminals[k])
                    /\ \A m \in PositionsOf(args.tree.terminals[k]) :
                           ret.value[2][k] <= m

\* a name that occurs twice in names, and a terminal whose name is not there
C9_Witness ==
    /\ ReorderDone /\ ReorderPreconditions
    /\ Len(args.tree.terminals) = 3
    /\ Cardinality(PositionsOf(args.tree.terminals[1])) = 2
    /\ PositionsOf(args.tree.terminals[3]) = {}
    /\ ret = Raise("IndexError")

(***************************************************************************)
(* Properties of clusterMatrix.                                            *)
(***************************************************************************)
ClusterDone == op = "clusterMatrix" /\ pc = "done"

ClusterReturned == ClusterDone /\ ret.kind = "return"

\* whether array is matrix with rows and columns both taken in the order idx
IsPermutedBy(array, matrix, idx) ==
    /\ array.shape = <<Len(idx), Len(idx)>>
    /\ \A a, b \in 0..(Len(idx) - 1) :
           array.data[<<a, b>>] = matrix.data[<<idx[a + 1], idx[b + 1]>>]

\* the index order: the dendrogram's leaves, reversed if reversed is set
IndexOrder == IF args.reversed THEN Reversed(lib.leaves) ELSE lib.leaves

CountIf(b) == IF b THEN 1 ELSE 0

\* C4: every call given a matrix returns a tuple with the reordered matrix at
\* position 0 and the index order at position 1, of length 2 + (1 if labels
\* was given) + (1 if return_linkage is truthy); the sorted labels, if any,
\* are at position 2 and the linkage, if asked for, is the last element.
C4_ReturnTuple ==
    ClusterDone =>
        IF args.distance_matrix.kind = "None" /\ args.similarity_matrix.kind = "None"
        THEN ret = Raise("ValueError")
        ELSE /\ ret.kind = "return"
             /\ Len(ret.value) = 2 + CountIf(~args.labels.isNone)
                                   + CountIf(args.return_linkage = "True")
             /\ ret.value[2] = IndexOrder
             /\ \E m \in {args.distance_matrix, args.similarity_matrix} :
                    m.kind = "array" /\ IsPermutedBy(ret.value[1], m, ret.value[2])
             /\ ~args.labels.isNone =>
                    /\ Len(ret.value[3]) = ClusterSize
                    /\ \A k \in 1..ClusterSize :
                           ret.value[3][k] = args.labels.items[ret.value[2][k] + 1]
             /\ args.return_linkage = "True" =>
                    /\ ret.value[Len(ret.value)] = lib.linkage_matrix
                    /\ Len(ret.value) = IF args.labels.isNone THEN 3 ELSE 4

\* labels and linkage both asked for: four elements
C4_Witness ==
    /\ ClusterReturned
    /\ ~args.labels.isNone
    /\ args.return_linkage = "True"
    /\ ClusterSize = 3
    /\ Len(ret.value) = 4
    /\ ret.value[2] = <<1, 2, 0>>

\* C5 as stated: the matrix returned is the similarity matrix if one was
\* given, and otherwise the distance matrix, with rows and columns in the
\* returned index order.
C5_SimilarityIfGiven ==
    ClusterReturned =>
        /\ ret.value[2] = IndexOrder
        /\ IsPermutedBy(ret.value[1],
                        IF args.similarity_matrix.kind # "None"
                        THEN args.similarity_matrix ELSE args.distance_matrix,
                        ret.value[2])

\* C5 as amended: the matrix returned is the distance matrix if one was given,
\* and otherwise the similarity matrix, never the derived 1 - similarity,
\* with rows and columns in the returned index order.
C5_DistanceIfGiven ==
    ClusterReturned =>
        /\ ret.value[2] = IndexOrder
        /\ IsPermutedBy(ret.value[1],
                        IF args.distance_matrix.kind # "None"
                        THEN args.distance_matrix ELSE args.similarity_matrix,
                        ret.value[2])
        /\ args.distance_matrix.kind = "None" =>
               ~IsPermutedBy(ret.value[1], lib.distances, ret.value[2])

\* a similarity matrix alone, reversed, the leaves not in row order
C5_Witness ==
    /\ ClusterReturned
    /\ args.distance_matrix.kind = "None"
    /\ args.reversed
    /\ ClusterSize = 3
    /\ lib.leaves = <<0, 2, 1>>
    /\ ret.value[2] = <<1, 2, 0>>
    /\ ret.value[1].data[<<0, 1>>] # ret.value[1].data[<<0, 2>>]

(***************************************************************************)
(* Properties of calcTree.                                                 *)
(***************************************************************************)
TreeDone == op = "calcTree" /\ pc = "done"

\* whether c is the letter l in either case
IsLetter(c, l) ==
    \E k \in 1..Len(LowerCase) :
        LowerCase[k] = l /\ c \in {LowerCase[k], UpperCase[k]}

\* whether method is name in any mix of cases with whitespace around it
IsVariantOf(method, name) ==
    \E a \in 0..Len(method) :
        /\ a + Len(name) <= Len(method)
        /\ \A k \in 1..Len(method) :
               IF k <= a \/ k > a + Len(name)
               THEN method[k] \in Whitespace
               ELSE IsLetter(method[k], name[k - a])

Recognized(method) ==
    \/ IsVariantOf(method, <<"n", "j">>)
    \/ IsVariantOf(method, <<"u", "p", "g", "m", "a">>)

SizesDiffer ==
    \/ Len(args.names) # args.distance_matrix.shape[1]
    \/ Len(args.names) # args.distance_matrix.shape[2]

\* C6: calcTree fails with a value error and returns no tree for every method
\* that is neither 'nj' nor 'upgma' once trimmed and lower-cased, and for
\* every names whose length differs from a dimension of the matrix, whatever
\* the method; the case and whitespace variants of the two names are accepted.
C6_MethodAndSizeErrors ==
    TreeDone =>
        /\ ~Recognized(args.method) => ret = Raise("ValueError")
        /\ SizesDiffer => ret = Raise("ValueError")
        /\ (Recognized(args.method) /\ ~SizesDiffer) =>
               /\ ret.kind = "return"
               /\ ret.value.builder =
                      IF IsVariantOf(args.method, <<"n", "j">>)
                      THEN "nj" ELSE "upgma"
               /\ lib.called = ret.value.builder

\* sizes that match and the method "n J": a value error
C6_Witness ==
    /\ TreeDone
    /\ Len(args.names) = 3
    /\ ~SizesDiffer
    /\ args.method = <<"n", " ", "J">>
    /\ ret = Raise("ValueError")

(***************************************************************************)
(* The module as a whole: one call of one of the four functions.           *)
(***************************************************************************)
Init == InitTree \/ InitCluster \/ InitReorder \/ InitSubgroups

Next ==
    \/ CallCalcTree
    \/ CallClusterMatrixNoMatrix
    \/ CallClusterMatrix
    \/ CallReorderMatrix
    \/ CallFindSubgroups

Spec == Init /\ [][Next]_vars

====
